---- MODULE Spec2Model ----
(***************************************************************************)
(* Model of psycopg_wrapper.PostgresConnect: one client issuing calls      *)
(* against a connection pool.  Pool slots, their closed/autocommit flags   *)
(* and the set of checked-out slots are the shared state; the position of  *)
(* the running call, its locals and a log of the pool/driver operations it *)
(* performed are the call state.                                           *)
(***************************************************************************)
EXTENDS Integers, Sequences, FiniteSets, TLC

(* -------------------------------- bounds ------------------------------ *)
\* number of pool slots (max_connection, scaled down)
MaxConn == 2
\* number of nested _get_connection frames the interpreter allows
\* (the recursion limit, scaled down)
MaxDepth == 2

Conns == 1..MaxConn
NoConn == 0

VARIABLES
    closed,      \* closed[c]: connection.closed != 0
    autocommit,  \* autocommit[c]: connection.autocommit
    used,        \* slots handed out by getconn and not given back by putconn
    pc,          \* position of the running call
    op,          \* public method being run
    verb,        \* leading keyword of the statement
    sql,         \* query text handed to execute_query
    params,      \* params handed to execute_query
    args,        \* the helper's arguments
    hasRows,     \* cursor.description is set after execute
    conn,        \* local `connection` of execute_query / _execute_*
    curConn,     \* connection the cursor was created on
    frames,      \* pending _get_connection frames below the running one
    acqFor,      \* who called _get_connection
    log,         \* pool and driver operations of the running call, in order
    thrown,      \* error raised by the driver in this call ("" when none)
    raisedAt,    \* step at which the call raised ("" when it did not)
    inner,       \* value returned by execute_query ("" before it returns)
    result       \* outcome of the public call

vars == <<closed, autocommit, used, pc, op, verb, sql, params, args,
          hasRows, conn, curConn, frames, acqFor, log, thrown, raisedAt,
          inner, result>>

poolVars == <<closed, autocommit, used>>
stmtVars == <<op, verb, sql, params, args, hasRows>>
localVars == <<conn, curConn, frames, acqFor>>
outVars == <<thrown, raisedAt, inner, result>>

(* ------------------------------ Python values ------------------------- *)
NoneParams == [none |-> TRUE, vals |-> <<>>]
SomeParams(v) == [none |-> FALSE, vals |-> v]

Returned(v) == [tag |-> "return", val |-> v]
Raised(e) == [tag |-> "raise", val |-> e]
NoResult == [tag |-> "none", val |-> ""]

DriverErrors == {"ProgrammingError", "OperationalError"}

RECURSIVE Join(_, _)
\* sep.join(parts)
Join(sep, parts) ==
    IF parts = <<>> THEN ""
    ELSE IF Len(parts) = 1 THEN parts[1]
    ELSE parts[1] \o sep \o Join(sep, Tail(parts))

\* truthiness of an Optional[int] held as <<>> (None) or <<n>>
TruthyInt(x) == x # <<>> /\ x[1] # 0


(* ------------------------------ inputs -------------------------------- *)
Tables == {"table"}
FieldsSet == {<<>>, <<"a", "b">>}
WhereSet == {<<>>, <<"a > %s", <<5>>>>, <<"a = 1">>}
SelectWhereSet == {<<>>, <<"a > %s", <<5>>>>}
OrderSet == {<<>>, <<"a", "DESC">>}
LimitSet == {<<>>, <<0>>, <<10>>}
OffsetSet == {<<>>, <<5>>}
DataSet == {<< <<"x", 1>> >>, << <<"x", 1>>, <<"y", 2>> >>}
UpdateDataSet == {<< <<"x", 1>> >>}
ReturningSet == {"", "id"}
RawVerbs == {"SELECT", "INSERT"}

(* -------------------------- SQL fragment helpers ---------------------- *)
_where(where) ==
    IF where # <<>> /\ Len(where) > 0 THEN " WHERE " \o where[1] ELSE ""

_order(order) ==
    IF order # <<>>
    THEN " ORDER BY " \o order[1]
         \o (IF Len(order) > 1 THEN " " \o order[2] ELSE "")
    ELSE ""

_limit(limit) ==
    IF TruthyInt(limit) THEN " LIMIT " \o ToString(limit[1]) ELSE ""

_offset(offset) ==
    IF TruthyInt(offset) THEN " OFFSET " \o ToString(offset[1]) ELSE ""

_returning(ret) ==
    IF ret # "" THEN " RETURNING " \o ret ELSE ""

\* data is an ordered mapping held as a sequence of <<key, value>> pairs
Keys(data) == [i \in 1..Len(data) |-> data[i][1]]
Values(data) == [i \in 1..Len(data) |-> data[i][2]]

_format_insert(data) ==
    [cols |-> Join(",", Keys(data)),
     values |-> Join(",", [i \in 1..Len(data) |-> "%s"])]

_format_update(data) == Join("=%s,", Keys(data)) \o "=%s"

\* validator.is_crud: the statement is data-mutating unless its leading
\* keyword is on the read-only list
ReadOnlyVerbs == {"SELECT"}
is_crud(v) == v \notin ReadOnlyVerbs

(* ----------------------- statements built by the helpers -------------- *)
Stmt(v, text, ps, rows) == [verb |-> v, sql |-> text, params |-> ps, rows |-> rows]

truncate_stmt(table, restart_identity, cascade) ==
    Stmt("TRUNCATE",
         "TRUNCATE " \o table
            \o (IF restart_identity THEN " RESTART IDENTITY" ELSE "")
            \o (IF cascade THEN " CASCADE" ELSE ""),
         NoneParams, FALSE)

drop_stmt(table, cascade) ==
    Stmt("DROP",
         "DROP TABLE IF EXISTS " \o table \o (IF cascade THEN " CASCADE" ELSE ""),
         NoneParams, FALSE)

create_stmt(table, schema) ==
    Stmt("CREATE", "CREATE TABLE " \o table \o " (" \o schema \o ")",
         NoneParams, FALSE)

insert_stmt(table, data, ret) ==
    LET f == _format_insert(data) IN
    Stmt("INSERT",
         "INSERT INTO " \o table \o " (" \o f.cols \o ") VALUES(" \o f.values \o ")"
            \o _returning(ret),
         SomeParams(Values(data)), ret # "")

select_stmt(table, fields, where, order, limit, offset) ==
    Stmt("SELECT",
         "SELECT " \o Join(", ", fields) \o " FROM " \o table
            \o _where(where) \o _order(order) \o _limit(limit) \o _offset(offset),
         NoneParams, TRUE)

update_stmt(table, data, where, ret) ==
    Stmt("UPDATE",
         "UPDATE " \o table \o " SET " \o _format_update(data)
            \o _where(where) \o _returning(ret),
         IF where # <<>> /\ Len(where) > 1
         THEN SomeParams(Values(data) \o where[2])
         ELSE SomeParams(Values(data)),
         ret # "")

delete_stmt(table, where, ret) ==
    Stmt("DELETE",
         "DELETE FROM " \o table \o _where(where) \o _returning(ret),
         IF where # <<>> /\ Len(where) > 1 THEN SomeParams(where[2]) ELSE NoneParams,
         ret # "")


(* ------------------------------- Init --------------------------------- *)
NoArgs ==
    [fields |-> <<>>, where |-> <<>>, order |-> <<>>, limit |-> <<>>,
     offset |-> <<>>, returning |-> ""]

Init ==
    /\ closed = [c \in Conns |-> FALSE]
    /\ autocommit = [c \in Conns |-> FALSE]
    /\ used = {}
    /\ pc = "idle"
    /\ op = ""
    /\ verb = ""
    /\ sql = ""
    /\ params = NoneParams
    /\ args = NoArgs
    /\ hasRows = FALSE
    /\ conn = NoConn
    /\ curConn = NoConn
    /\ frames = <<>>
    /\ acqFor = ""
    /\ log = <<>>
    /\ thrown = ""
    /\ raisedAt = ""
    /\ inner = ""
    /\ result = NoResult

(* ------------------------ public methods: entry ----------------------- *)
\* the helper has built its statement and calls execute_query, which starts
\* with _get_connection
Begin(name, a, st) ==
    /\ pc = "idle"
    /\ op' = name
    /\ args' = a
    /\ verb' = st.verb
    /\ sql' = st.sql
    /\ params' = st.params
    /\ hasRows' = st.rows
    /\ conn' = NoConn
    /\ curConn' = NoConn
    /\ frames' = <<>>
    /\ acqFor' = "execute_query"
    /\ log' = <<>>
    /\ thrown' = ""
    /\ raisedAt' = ""
    /\ inner' = ""
    /\ result' = NoResult
    /\ pc' = "get"
    /\ UNCHANGED poolVars

execute_query ==
    /\ pc = "idle"
    /\ \E v \in RawVerbs, rows \in BOOLEAN :
        Begin("execute_query", NoArgs, Stmt(v, v \o " ...", NoneParams, rows))

truncate ==
    /\ pc = "idle"
    /\ \E t \in Tables, ri \in BOOLEAN, ca \in BOOLEAN :
        Begin("truncate", NoArgs, truncate_stmt(t, ri, ca))

drop ==
    /\ pc = "idle"
    /\ \E t \in Tables, ca \in BOOLEAN :
        Begin("drop", NoArgs, drop_stmt(t, ca))

create ==
    /\ pc = "idle"
    /\ \E t \in Tables :
        Begin("create", NoArgs, create_stmt(t, "id serial"))

insert ==
    /\ pc = "idle"
    /\ \E t \in Tables, d \in DataSet, r \in ReturningSet :
        Begin("insert", [NoArgs EXCEPT !.returning = r], insert_stmt(t, d, r))

select ==
    /\ pc = "idle"
    /\ \E t \in Tables, f \in FieldsSet, w \in SelectWhereSet, o \in OrderSet,
       l \in LimitSet, off \in OffsetSet :
        Begin("select",
              [NoArgs EXCEPT !.fields = f, !.where = w, !.order = o,
                             !.limit = l, !.offset = off],
              select_stmt(t, f, w, o, l, off))

update ==
    /\ pc = "idle"
    /\ \E t \in Tables, d \in UpdateDataSet, w \in WhereSet, r \in ReturningSet :
        Begin("update", [NoArgs EXCEPT !.where = w, !.returning = r],
              update_stmt(t, d, w, r))

delete ==
    /\ pc = "idle"
    /\ \E t \in Tables, w \in WhereSet, r \in ReturningSet :
        Begin("delete", [NoArgs EXCEPT !.where = w, !.returning = r],
              delete_stmt(t, w, r))


(* ------------------------------ the pool ------------------------------ *)
\* a pool or driver operation on connection c, with the connection's flags
\* at that moment
Event(e, c) == [ev |-> e, c |-> c, auto |-> autocommit[c], closed |-> closed[c]]

(* ------------------------- reading the call's log --------------------- *)
Events(e) == SelectSeq(log, LAMBDA x : x.ev = e)
Count(e) == Len(Events(e))
ConnsOf(e) == {log[i].c : i \in {j \in DOMAIN log : log[j].ev = e}}
PutCount(c) == Len(SelectSeq(log, LAMBDA x : x.ev = "putconn" /\ x.c = c))
\* positions of the events of one kind
Positions(e) == {i \in DOMAIN log : log[i].ev = e}
\* positions at which the statement was sent on a live connection
Ran == {i \in Positions("execute") : ~log[i].closed}
\* execute_query has returned normally in the running call
QueryReturned == pc \in {"returned", "done"} /\ inner # ""

\* connection_pool.getconn() handing out slot c
getconn(c) == used \cup {c}

\* connection_pool.putconn(con): the slot is free again; a closed
\* connection is discarded and the slot later holds a fresh one
putconn(c) ==
    [used |-> used \ {c},
     closed |-> [closed EXCEPT ![c] = FALSE],
     autocommit |-> IF closed[c] THEN [autocommit EXCEPT ![c] = FALSE]
                    ELSE autocommit]

\* a connection is closed behind the client's back (server restart,
\* another holder of the handle): connection.closed becomes nonzero and
\* the session, with its autocommit setting, is gone
EnvClose ==
    \E c \in Conns :
        /\ ~closed[c]
        /\ closed' = [closed EXCEPT ![c] = TRUE]
        /\ autocommit' = [autocommit EXCEPT ![c] = FALSE]
        /\ UNCHANGED <<used, pc, stmtVars, localVars, log, outVars>>

(* the call ends with an exception reaching the caller *)
Raise(e, at) ==
    /\ thrown' = e
    /\ raisedAt' = at
    /\ result' = Raised(e)
    /\ pc' = "done"
    /\ UNCHANGED inner

(* --------------------------- _get_connection -------------------------- *)
RECURSIVE Unwind(_)
\* an exception leaves the running frame: a parent that made the call from
\* its try block catches it (bare except) and calls again from the handler;
\* a parent that made the call from a handler lets it through
Unwind(fs) ==
    IF fs = <<>> THEN [raised |-> TRUE, frames |-> <<>>]
    ELSE IF fs[Len(fs)] = "handler" THEN Unwind(SubSeq(fs, 1, Len(fs) - 1))
    ELSE [raised |-> FALSE,
          frames |-> Append(SubSeq(fs, 1, Len(fs) - 1), "handler")]

\* `return self._get_connection()` made from `from` ("try" or "handler")
Recurse(from) ==
    IF Len(frames) + 1 < MaxDepth
    THEN /\ frames' = Append(frames, from)
         /\ UNCHANGED <<pc, conn, curConn, acqFor, outVars>>
    ELSE LET u == Unwind(frames) IN
         IF u.raised
         THEN /\ Raise("RecursionError", "_get_connection")
              /\ frames' = <<>>
              /\ UNCHANGED <<conn, curConn, acqFor>>
         ELSE /\ frames' = u.frames
              /\ UNCHANGED <<pc, conn, curConn, acqFor, outVars>>

\* getconn returns an open connection: every pending frame returns it
_get_connection_open ==
    \E c \in Conns \ used :
        /\ pc = "get"
        /\ ~closed[c]
        /\ used' = getconn(c)
        /\ log' = Append(log, Event("getconn", c))
        /\ frames' = <<>>
        /\ IF acqFor = "execute_query"
           THEN conn' = c /\ curConn' = curConn /\ pc' = "classify"
           ELSE curConn' = c /\ conn' = conn /\ pc' = "cursor"
        /\ UNCHANGED <<closed, autocommit, stmtVars, acqFor, outVars>>

\* getconn returns a closed connection: recurse from the try block
_get_connection_closed ==
    \E c \in Conns \ used :
        /\ pc = "get"
        /\ closed[c]
        /\ used' = getconn(c)
        /\ log' = Append(log, Event("getconn", c))
        /\ Recurse("try")
        /\ UNCHANGED <<closed, autocommit, stmtVars>>

\* getconn raises (PoolError or anything else): recurse from the handler
_get_connection_error ==
    /\ pc = "get"
    /\ Recurse("handler")
    /\ UNCHANGED <<poolVars, stmtVars, log>>


(* ---------------------------- execute_query --------------------------- *)
\* lines 130-131: a read gets autocommit switched on before it runs
classify ==
    /\ pc = "classify"
    /\ IF ~is_crud(verb)
       THEN IF closed[conn]
            THEN /\ Raise("InterfaceError", "autocommit")
                 /\ UNCHANGED <<autocommit, curConn>>
            ELSE /\ autocommit' = [autocommit EXCEPT ![conn] = TRUE]
                 /\ curConn' = conn
                 /\ pc' = "_create_cursor"
                 /\ UNCHANGED outVars
       ELSE /\ curConn' = conn
            /\ pc' = "_create_cursor"
            /\ UNCHANGED <<autocommit, outVars>>
    /\ UNCHANGED <<closed, used, stmtVars, conn, frames, acqFor, log>>

\* _create_cursor, lines 51-52: a closed connection is replaced in the
\* local variable of _create_cursor only
_create_cursor ==
    /\ pc = "_create_cursor"
    /\ IF closed[curConn]
       THEN pc' = "get" /\ acqFor' = "_create_cursor"
       ELSE pc' = "cursor" /\ acqFor' = acqFor
    /\ UNCHANGED <<poolVars, stmtVars, conn, curConn, frames, log, outVars>>

\* _create_cursor, lines 53-56: connection.cursor()
cursor ==
    /\ pc = "cursor"
    /\ IF closed[curConn]
       THEN Raise("InterfaceError", "cursor")
       ELSE pc' = "execute" /\ UNCHANGED outVars
    /\ UNCHANGED <<poolVars, stmtVars, localVars, log>>

\* where _execute_with_autocommit / _execute_without_autocommit go once the
\* statement has run (and, for a write, has been committed)
AfterStatement == IF hasRows THEN "fetchall" ELSE "release"

\* cursor.execute(query, params) succeeds
execute_ok ==
    /\ pc = "execute"
    /\ ~closed[curConn]
    /\ log' = Append(log, Event("execute", curConn))
    /\ pc' = IF is_crud(verb) THEN "commit" ELSE AfterStatement
    /\ UNCHANGED <<poolVars, stmtVars, localVars, outVars>>

\* a client that runs a failed statement a second time before giving up
execute_fail_retry ==
    /\ pc = "execute"
    /\ log' = Append(log, Event("execute", curConn))
    /\ IF Count("execute") = 0 /\ ~closed[curConn]
       THEN UNCHANGED <<pc, outVars>>
       ELSE IF closed[curConn]
            THEN Raise("InterfaceError", "execute")
            ELSE \E e \in DriverErrors : Raise(e, "execute")
    /\ UNCHANGED <<poolVars, stmtVars, localVars>>

\* cursor.execute(query, params) raises
execute_fail ==
    /\ pc = "execute"
    /\ log' = Append(log, Event("execute", curConn))
    /\ IF closed[curConn]
       THEN Raise("InterfaceError", "execute")
       ELSE \E e \in DriverErrors : Raise(e, "execute")
    /\ UNCHANGED <<poolVars, stmtVars, localVars>>

\* connection.commit() (line 120) on the connection execute_query acquired
commit ==
    /\ pc = "commit"
    /\ log' = Append(log, Event("commit", conn))
    /\ IF closed[conn]
       THEN Raise("InterfaceError", "commit")
       ELSE \/ pc' = AfterStatement /\ UNCHANGED outVars
            \/ \E e \in DriverErrors : Raise(e, "commit")
    /\ UNCHANGED <<poolVars, stmtVars, localVars>>

\* cursor.fetchall() (lines 111, 122)
fetchall ==
    /\ pc = "fetchall"
    /\ IF closed[curConn]
       THEN Raise("InterfaceError", "fetchall")
       ELSE \/ pc' = "release" /\ UNCHANGED outVars
            \/ \E e \in DriverErrors : Raise(e, "fetchall")
    /\ UNCHANGED <<poolVars, stmtVars, localVars, log>>

\* _close_cursor_connection(cursor, connection), then execute_query returns
_close_cursor_connection ==
    /\ pc = "release"
    /\ LET p == putconn(conn) IN
         /\ used' = p.used
         /\ closed' = p.closed
         /\ autocommit' = p.autocommit
    /\ log' = Append(log, Event("putconn", conn))
    /\ inner' = IF hasRows THEN "rows" ELSE "True"
    /\ pc' = "returned"
    /\ UNCHANGED <<stmtVars, localVars, thrown, raisedAt, result>>

(* ------------------------ public methods: return ---------------------- *)
\* Python type of the value execute_query returned
PyType(v) == IF v = "True" THEN "bool" ELSE IF v = "rows" THEN "list" ELSE "cursor"

\* attributes among those the helpers read
HasAttr(v, a) ==
    IF PyType(v) = "cursor" THEN a \in {"rowcount", "fetchone", "fetchall"}
    ELSE FALSE

\* execute_query(...) itself, and select (line 171): the value is returned
return_value ==
    /\ pc = "returned"
    /\ op \in {"execute_query", "select"}
    /\ result' = Returned(inner)
    /\ pc' = "done"
    /\ UNCHANGED <<poolVars, stmtVars, localVars, log, thrown, raisedAt, inner>>

\* truncate, drop, create (lines 142, 149, 153): nothing is returned
return_none ==
    /\ pc = "returned"
    /\ op \in {"truncate", "drop", "create"}
    /\ result' = Returned("None")
    /\ pc' = "done"
    /\ UNCHANGED <<poolVars, stmtVars, localVars, log, thrown, raisedAt, inner>>

\* the attribute insert / update / delete read from `cur`
CurAttr ==
    IF args.returning # ""
    THEN (IF op = "insert" THEN "fetchone" ELSE "fetchall")
    ELSE "rowcount"

\* insert, update, delete (lines 161, 182, 189)
return_cur ==
    /\ pc = "returned"
    /\ op \in {"insert", "update", "delete"}
    /\ IF HasAttr(inner, CurAttr)
       THEN /\ result' = Returned(CurAttr)
            /\ pc' = "done"
            /\ UNCHANGED <<thrown, raisedAt, inner>>
       ELSE Raise("AttributeError", "return")
    /\ UNCHANGED <<poolVars, stmtVars, localVars, log>>

\* the outcome has reached the caller; the call's locals are gone and the
\* client is idle again
idle ==
    /\ pc = "done"
    /\ pc' = "idle"
    /\ op' = ""
    /\ verb' = ""
    /\ sql' = ""
    /\ params' = NoneParams
    /\ args' = NoArgs
    /\ hasRows' = FALSE
    /\ conn' = NoConn
    /\ curConn' = NoConn
    /\ frames' = <<>>
    /\ acqFor' = ""
    /\ log' = <<>>
    /\ thrown' = ""
    /\ raisedAt' = ""
    /\ inner' = ""
    /\ result' = NoResult
    /\ UNCHANGED poolVars

(* ------------------------------- Next --------------------------------- *)
Next ==
    \/ execute_query
    \/ truncate
    \/ drop
    \/ create
    \/ insert
    \/ select
    \/ update
    \/ delete
    \/ _get_connection_open
    \/ _get_connection_closed
    \/ _get_connection_error
    \/ classify
    \/ _create_cursor
    \/ cursor
    \/ execute_ok
    \/ execute_fail
    \/ commit
    \/ fetchall
    \/ _close_cursor_connection
    \/ return_value
    \/ return_none
    \/ return_cur
    \/ idle
    \/ EnvClose

Spec == Init /\ [][Next]_vars


(* ------------------------------- claims ------------------------------- *)

\* C1: when execute_query returns normally, every connection the call took
\* with getconn has been given back with putconn exactly once, also when
\* getconn handed out a closed connection first.
C1_AcquiredReleasedOnce ==
    QueryReturned => \A c \in ConnsOf("getconn") : PutCount(c) = 1

\* C2: when cursor creation, cursor.execute, connection.commit or fetchall
\* raises, the connection acquired for the call is back in the pool when the
\* error reaches the caller.
C2_ReleasedOnError ==
    (pc = "done" /\ raisedAt \in {"cursor", "execute", "commit", "fetchall"})
        => (conn \notin used /\ PutCount(conn) = 1)

\* C3: a read is executed on a connection with autocommit enabled and no
\* commit is issued; a write that returns was committed exactly once, after
\* cursor.execute and before the connection was released.
C3_ReadAutocommitWriteCommit ==
    /\ (verb # "" /\ ~is_crud(verb)) =>
          /\ \A i \in Ran : log[i].auto
          /\ Count("commit") = 0
    /\ (verb # "" /\ is_crud(verb) /\ QueryReturned) =>
          /\ Count("commit") = 1
          /\ \A i \in Positions("execute"), j \in Positions("commit"),
                k \in Positions("putconn") : i < j /\ j < k

\* the write half of C3 on its own
C3_WritePart ==
    (verb # "" /\ is_crud(verb) /\ QueryReturned) =>
          /\ Count("commit") = 1
          /\ \A i \in Positions("execute"), j \in Positions("commit"),
                k \in Positions("putconn") : i < j /\ j < k

\* C4: a mutating statement is executed at most once per call; when its
\* execution fails no commit is issued and the driver's error is what the
\* caller gets.
C4_FailedWriteNotRetried ==
    (verb # "" /\ is_crud(verb)) =>
        /\ Count("execute") <= 1
        /\ raisedAt = "execute" =>
              /\ Count("commit") = 0
              /\ thrown \in DriverErrors \cup {"InterfaceError"}
              /\ pc = "done"
              /\ result = Raised(thrown)

\* a failed write has reached the caller
C4_Witness ==
    /\ pc = "done"
    /\ is_crud(verb)
    /\ raisedAt = "execute"
    /\ thrown \in DriverErrors
    /\ Count("execute") = 1

\* C5: acquisition retries without limit: it never ends by raising to the
\* caller, and the connection it returns is open.
C5_AcquisitionOnlyEndsWithOpenConnection ==
    /\ raisedAt # "_get_connection"
    /\ pc = "classify" => ~log[Len(log)].closed

\* C6: insert, update and delete called without `returning` return the
\* affected-row count of the executed statement.
C6_ReturnsRowcount ==
    (pc = "done" /\ op \in {"insert", "update", "delete"}
        /\ args.returning = "" /\ inner # "")
        => result = Returned("rowcount")

\* C7: select with fields ["a","b"] and where ("a > %s", [5]) runs
\* `SELECT a,b FROM table WHERE a > %s` with params [5]; a where clause's
\* params always reach execute_query.
C7_SelectPassesWhereParams ==
    /\ (op = "select" /\ args.fields = <<"a", "b">>
           /\ args.where = <<"a > %s", <<5>>>> /\ args.order = <<>>
           /\ args.limit = <<>> /\ args.offset = <<>>)
          => (sql = "SELECT a,b FROM table WHERE a > %s"
                /\ params = SomeParams(<<5>>))
    /\ (op = "select" /\ Len(args.where) > 1)
          => params = SomeParams(args.where[2])

\* the SQL the documented select produces: `*` for an empty field list, and
\* WHERE, ORDER BY, LIMIT, OFFSET, in that order, each exactly when given
DocumentedSelect(a) ==
    "SELECT " \o (IF a.fields = <<>> THEN "*" ELSE Join(", ", a.fields))
        \o " FROM table"
        \o (IF a.where # <<>> THEN " WHERE " \o a.where[1] ELSE "")
        \o (IF a.order # <<>> THEN " ORDER BY " \o Join(" ", a.order) ELSE "")
        \o (IF a.limit # <<>> THEN " LIMIT " \o ToString(a.limit[1]) ELSE "")
        \o (IF a.offset # <<>> THEN " OFFSET " \o ToString(a.offset[1]) ELSE "")

\* C8: select's SQL has `*` as field list when fields is empty and carries
\* each of WHERE, ORDER BY, LIMIT, OFFSET iff its argument is present, in
\* that order.
C8_SelectShape ==
    op = "select" => sql = DocumentedSelect(args)

\* C9: a write never executes on a connection whose autocommit flag is on.
C9_WriteNotInAutocommit ==
    (verb # "" /\ is_crud(verb)) =>
        \A i \in Ran : ~log[i].auto

\* C10: the statement is executed, committed and released on one and the same
\* connection, and a call that returns has released exactly the connections
\* it used.
C10_OneConnectionPerCall ==
    /\ \A i, j \in Positions("execute") \cup Positions("commit")
                     \cup Positions("putconn") : log[i].c = log[j].c
    /\ QueryReturned => ConnsOf("putconn") = ConnsOf("execute")


====
